---- MODULE Spec2Model ----
(***************************************************************************)
(* A model of src/hope_genome.py (HopeGenome, IntegrityGuard,              *)
(* HopeGenomeRuntime, CollectiveIntelligence) and of the concurrent        *)
(* dispatch in src/benchmark.py (benchmark_high_load).                     *)
(*                                                                         *)
(* Numbers.  The state vector components and the consciousness level are   *)
(* Python floats; they are modelled in hundredths (0.5 is 50).  The        *)
(* request state vectors the model draws are those whose mean is a whole   *)
(* number of hundredths and on which CPython's float arithmetic gives      *)
(* exactly that decimal.  Node resonances are binary64 floats, modelled   *)
(* bit for bit (see Python floats below).                                   *)
(*                                                                         *)
(* Strings.  str(...) is modelled as a sequence of characters and tokens,  *)
(* concatenated as the code concatenates them.  sha256 is modelled as an   *)
(* injective function of its input.                                        *)
(***************************************************************************)
EXTENDS Integers, Sequences, FiniteSets, TLC

VARIABLES
    ethics_core,          \* HopeGenome.ethics_core: key -> bool
    consciousness_level,  \* HopeGenome.presence_core.consciousness_level (hundredths)
    nodes,                \* HopeGenome.orchestration_core.nodes: id -> resonance
    checksum,             \* HopeGenome.checksum: None or the digest
    metadata,             \* HopeGenome.metadata: key -> value
    enable_collective,    \* HopeGenomeRuntime.enable_collective
    verification_count,   \* IntegrityGuard.verification_count
    decision_count,       \* HopeGenomeRuntime.decision_count
    pc,                   \* per decide() call: its position
    ctx,                  \* per decide() call: its DecisionContext
    verdict,              \* per decide() call: what it returned or raised
    running,              \* the call the interpreter is executing, 0 when none
    last,                 \* the caller's last direct operation and its result
    sealed_at,            \* observation: the hashed fields at the last seal()
    snap,                 \* observation: per call, the shared state when it started
    stages,               \* observation: per call, the steps it has executed
    writer,               \* observation: which call last wrote level / resonance
    calls                 \* observation: how many calls ended how, how many
                          \* aggregator operations the caller has made, and the
                          \* unhashed state at the last seal()

vars == <<ethics_core, consciousness_level, nodes, checksum, metadata, enable_collective,
          verification_count, decision_count, pc, ctx, verdict, running,
          last, sealed_at, snap, stages, writer, calls>>

genomeVars == <<ethics_core, consciousness_level, nodes, checksum, metadata>>
runtimeVars == <<enable_collective, verification_count, decision_count>>
callVars == <<pc, ctx, verdict, running, snap, stages, writer>>

----------------------------------------------------------------------------
(* Bounds of the model *)

\* node ids available in the sealing model
MaxSealNodes == 10
\* node ids available in the engine models
MaxNodes == 2
\* guard verifications explored in the engine model
MaxCalls == 2
\* decide() coroutines gathered in the concurrent model
NTasks == 3
\* nodes of the aggregator model
MaxAggNodes == 7
\* operations of one run of the aggregator model
MaxAggOps == 4
\* aggregator operations of one run of the life-cycle model
MaxCoreOps == 2
\* guard verifications explored in the drift model
MaxDriftCalls == 3

----------------------------------------------------------------------------
(* Program constants *)

\* RiskLevel enum values
LOW == 1
MEDIUM == 2
HIGH == 3
CRITICAL == 4
RiskLevels == {LOW, MEDIUM, HIGH, CRITICAL}

\* thresholds, in hundredths
RiskThreshold == 75
ArousalLimit == 80
ValenceLimit == -50
ConsciousnessFloor == 30
ResonanceFloor == 50
InitialConsciousness == 50

Keys == <<"no_harm", "autonomy_respect", "transparency">>
KeySet == {Keys[i] : i \in 1..Len(Keys)}

None == <<>>

\* HopeGenome.metadata after __init__: the empty dict
NoMetadata == [k \in {} |-> ""]

----------------------------------------------------------------------------
(* Python floats.  A float is an IEEE 754 binary64 number; the model holds a
   non-negative one as <<m, e>>, the value m * 2^e, where m is a natural
   number of exactly Precision bits (or zero, with e = 0) written as a
   sequence of limbs in base Base, least significant first.  Every
   operation rounds its exact result to nearest, ties to even.  Underflow
   and overflow are out of the range the model explores. *)

Precision == 53
LimbBits == 14
Base == 2^LimbBits
\* bits a quotient is computed to below the last place before it is rounded
GuardBits == 17

Min(x, y) == IF x < y THEN x ELSE y

\* the element of a one-element set: Value({body : x \in {a}}) is body with
\* a evaluated once
Value(s) == CHOOSE x \in s : TRUE

\* a + b + c on limb sequences, c a carry
RECURSIVE BigAdd(_, _, _)
BigAdd(a, b, c) ==
    Value({ IF x = <<>> /\ y = <<>> THEN (IF z = 0 THEN <<>> ELSE <<z>>)
            ELSE Value({ <<t % Base>> \o BigAdd(IF x = <<>> THEN x ELSE Tail(x),
                                               IF y = <<>> THEN y ELSE Tail(y), t \div Base) :
                         t \in {(IF x = <<>> THEN 0 ELSE Head(x))
                                + (IF y = <<>> THEN 0 ELSE Head(y)) + z} }) :
            x \in {a}, y \in {b}, z \in {c} })

\* a * k + c for 0 < k <= Base
RECURSIVE BigMul(_, _, _)
BigMul(a, k, c) ==
    Value({ IF x = <<>> THEN (IF z = 0 THEN <<>> ELSE <<z>>)
            ELSE Value({ <<t % Base>> \o BigMul(Tail(x), y, t \div Base) :
                         t \in {Head(x) * y + z} }) :
            x \in {a}, y \in {k}, z \in {c} })

\* long division of a by 0 < k <= Base, from the top limb down
RECURSIVE BigDivFrom(_, _, _, _, _)
BigDivFrom(a, k, i, r, acc) ==
    Value({ IF j = 0 THEN [q |-> y, r |-> z]
            ELSE Value({ BigDivFrom(x, k, j - 1, t % k,
                                    IF y = <<>> /\ t \div k = 0 THEN y
                                    ELSE <<t \div k>> \o y) :
                         t \in {z * Base + x[j]} }) :
            x \in {a}, j \in {i}, z \in {r}, y \in {acc} })
BigDiv(a, k) == Value({ BigDivFrom(x, y, Len(x), 0, <<>>) : x \in {a}, y \in {k} })

RECURSIVE BitsOf(_)
BitsOf(n) == Value({ IF x = 0 THEN 0 ELSE 1 + BitsOf(x \div 2) : x \in {n} })
BitLen(a) ==
    Value({ IF x = <<>> THEN 0 ELSE (Len(x) - 1) * LimbBits + BitsOf(x[Len(x)]) : x \in {a} })

\* a < b for limb sequences of the same length
RECURSIVE BigLess(_, _, _)
BigLess(a, b, i) ==
    IF i = 0 THEN FALSE
    ELSE IF a[i] # b[i] THEN a[i] < b[i] ELSE BigLess(a, b, i - 1)

RECURSIVE ShiftLeft(_, _)
ShiftLeft(a, k) ==
    Value({ IF y = 0 THEN x
            ELSE ShiftLeft(BigMul(x, 2^Min(y, LimbBits), 0), y - Min(y, LimbBits)) :
            x \in {a}, y \in {k} })

Zero == <<<<>>, 0>>

\* v * 2^e for v of Precision + 1 bits, rounded to nearest, ties to even
RoundLast(d, e, sticky) ==
    Value({ IF BitLen(m) > Precision THEN <<BigDiv(m, 2).q, e + 2>> ELSE <<m, e + 1>> :
            m \in {IF d.r = 1 /\ (sticky \/ d.q[1] % 2 = 1) THEN BigAdd(d.q, <<1>>, 0)
                   ELSE d.q} })

\* the float nearest to v * 2^e (plus, when sticky, a positive amount below
\* the last bit of v), ties to even
RECURSIVE Round(_, _, _)
Round(v, e, sticky) ==
    Value({ IF n = 0 THEN Zero
            ELSE IF n > Precision + 1 THEN
                Value({ Round(d.q, y + Min(n - Precision - 1, LimbBits), z \/ d.r # 0) :
                        d \in {BigDiv(x, 2^Min(n - Precision - 1, LimbBits))} })
            ELSE IF n = Precision + 1 THEN
                Value({ RoundLast(d, y, z) : d \in {BigDiv(x, 2)} })
            ELSE <<ShiftLeft(x, Precision - n), y - (Precision - n)>> :
            <<x, y, z, n>> \in {<<v, e, sticky, BitLen(v)>>} })

\* float + float
FloatAdd(a, b) ==
    Value({ IF x[1] = <<>> THEN y
            ELSE IF y[1] = <<>> THEN x
            ELSE Round(BigAdd(ShiftLeft(x[1], x[2] - Min(x[2], y[2])),
                              ShiftLeft(y[1], y[2] - Min(x[2], y[2])), 0),
                       Min(x[2], y[2]), FALSE) :
            x \in {a}, y \in {b} })

\* float / int, for 0 < k < Base
FloatDivInt(a, k) ==
    Value({ Round(d.q, x[2] - GuardBits, d.r # 0) :
            <<x, d>> \in {<<a, BigDiv(ShiftLeft(a[1], GuardBits), k)>>} })

\* float < float
FloatLess(a, b) ==
    Value({ IF y[1] = <<>> THEN FALSE
            ELSE IF x[1] = <<>> THEN TRUE
            ELSE x[2] < y[2] \/ (x[2] = y[2] /\ BigLess(x[1], y[1], Len(x[1]))) :
            x \in {a}, y \in {b} })

\* float(n) for 0 <= n < Base
FloatOfInt(n) == Round(IF n = 0 THEN <<>> ELSE <<n>>, 0, FALSE)

\* the float a decimal literal of p hundredths denotes (0.5 is Literal(50))
Literal(p) == FloatDivInt(FloatOfInt(p), 100)

----------------------------------------------------------------------------
(* str() of the hashed fields *)

Digits == <<"0", "1", "2", "3", "4", "5", "6", "7", "8", "9">>
Digit(d) == Digits[d + 1]

\* str(int) for n >= 0
RECURSIVE StrInt(_)
StrInt(n) == IF n < 10 THEN <<Digit(n)>> ELSE StrInt(n \div 10) \o <<Digit(n % 10)>>

\* str(float) of h/100 for h >= 0: shortest repr, at least one fractional digit
StrFloat(h) ==
    StrInt(h \div 100) \o <<".">> \o
    (IF h % 10 = 0 THEN <<Digit((h % 100) \div 10)>>
                   ELSE <<Digit((h % 100) \div 10), Digit(h % 10)>>)

StrBool(b) == IF b THEN "True" ELSE "False"

\* the items of dict e from key i on, each preceded by ", "; a key the dict
\* does not hold has no item
RECURSIVE StrItems(_, _)
StrItems(e, i) ==
    IF i > Len(Keys) THEN <<>>
    ELSE (IF Keys[i] \in DOMAIN e
          THEN <<", ", "'", Keys[i], "'", ": ", StrBool(e[Keys[i]])>>
          ELSE <<>>)
         \o StrItems(e, i + 1)

\* str(dict) in insertion order
StrDict(e) ==
    Value({ <<"{">> \o (IF items = <<>> THEN <<>> ELSE Tail(items)) \o <<"}">> :
            items \in {StrItems(e, 1)} })

\* hashlib.sha256(data.encode()).hexdigest(), taken to be injective
Sha256(data) == <<"sha256:">> \o data

\* the data seal() and verify_integrity() hash
SealDataWithMetadata(e, level, n) ==
    StrDict(e) \o StrFloat(level) \o StrInt(n) \o <<metadata>>
SealData(e, level, n) == StrDict(e) \o StrFloat(level) \o StrInt(n)

NodeCount == Cardinality(DOMAIN nodes)

\* HopeGenome.verify_integrity
VerifyUnsealedPasses ==
    IF checksum = None THEN TRUE
    ELSE checksum = Sha256(SealData(ethics_core, consciousness_level, NodeCount))
verify_integrity ==
    IF checksum = None THEN FALSE
    ELSE checksum = Sha256(SealData(ethics_core, consciousness_level, NodeCount))

----------------------------------------------------------------------------
(* Requests *)

Vec(a, v, d) == [arousal |-> a, valence |-> v, dominance |-> d]
DefaultState == Vec(50, 50, 50)

\* state vectors drawn by the model (see the note on numbers above)
StateVectors ==
    { DefaultState, Vec(25, 25, 25), Vec(70, 200, 60),
      Vec(90, 50, 10), Vec(80, 50, 20), Vec(50, -50, 60) }

\* PresenceLayer.update_consciousness: the value it leaves in consciousness_level
Clamp01(x) == IF x < 0 THEN 0 ELSE IF x > 100 THEN 100 ELSE x
UpdateConsciousnessUnclamped(s) == (s.arousal + s.valence + s.dominance) \div 3
UpdateConsciousnessNoDivide(s) == Clamp01(s.arousal + s.valence + s.dominance)
update_consciousness(s) == Clamp01((s.arousal + s.valence + s.dominance) \div 3)

\* state vectors of the pipeline model: two more, stable, one of negative mean
\* and one whose mean is the consciousness floor
StageVectors == StateVectors \cup {Vec(0, -40, -20), Vec(30, 30, 30)}

\* vectors the presence layer is fed directly in the sealing model
SealVectors == {DefaultState, Vec(51, 51, 51)}

----------------------------------------------------------------------------
(* Observations *)

Fields == [flags |-> ethics_core, level |-> consciousness_level, count |-> NodeCount]
NoFields == [flags |-> [k \in KeySet |-> TRUE], level |-> -1, count |-> -1]
\* op: the operation, val / num: what it returned, arg: the float it was given,
\* pre: the node set it found
NoOp == [op |-> "none", val |-> "none", num |-> Zero, arg |-> Zero, pre |-> <<>>]
Result(o, v) == [NoOp EXCEPT !.op = o, !.val = v]
\* what seal() does not hash
Unhashed == [nodes |-> nodes, metadata |-> metadata]
NoCallsYet ==
    [ok |-> 0, raised |-> 0, ext |-> 0, ext_raised |-> 0, agg |-> 0,
     at_seal |-> [nodes |-> <<>>, metadata |-> NoMetadata]]

Tasks == 1..NTasks
LowDefault == [risk_level |-> LOW, emotional_state |-> DefaultState, deny_all |-> "absent"]
NoSnap == [level |-> InitialConsciousness, nodes |-> <<>>, dc |-> 0, vc |-> 0, ok |-> FALSE]

\* no decide() call exists: every slot is in position p
Frames(p) ==
    /\ pc = [t \in Tasks |-> p]
    /\ ctx = [t \in Tasks |-> LowDefault]
    /\ verdict = [t \in Tasks |-> "none"]
    /\ running = 0
    /\ snap = [t \in Tasks |-> NoSnap]
    /\ stages = [t \in Tasks |-> <<>>]
    /\ writer = [level |-> 0, res |-> 0]

\* the caller is between calls; the record of its previous call is dropped
BetweenCalls ==
    /\ running = 0
    /\ pc' = [t \in Tasks |-> "idle"]
    /\ ctx' = [t \in Tasks |-> LowDefault]
    /\ verdict' = [t \in Tasks |-> "none"]
    /\ running' = 0
    /\ snap' = [t \in Tasks |-> NoSnap]
    /\ stages' = [t \in Tasks |-> <<>>]
    /\ writer' = [level |-> 0, res |-> 0]

----------------------------------------------------------------------------
(* The configuration: HopeGenome and GenomeBuilder *)

\* HopeGenome.__init__
GenomeInit ==
    /\ ethics_core = [k \in KeySet |-> TRUE]
    /\ consciousness_level = InitialConsciousness
    /\ nodes = <<>>
    /\ checksum = None
    /\ metadata = NoMetadata

\* GenomeBuilder.set_ethics_principles({k: b})
set_ethics_principles(k, b) ==
    /\ BetweenCalls
    /\ ethics_core' = [ethics_core EXCEPT ![k] = b]
    /\ last' = NoOp
    /\ UNCHANGED <<consciousness_level, nodes, checksum, metadata, runtimeVars, sealed_at>>

\* CollectiveIntelligence.add_node(ResonanceNode(id)): a new node has resonance 0.0;
\* ids are 1..n in order of first insertion, an existing id is overwritten
AddNodeUnseals(id, bound) ==
    /\ BetweenCalls
    /\ id \in 1..bound
    /\ id <= NodeCount + 1
    /\ nodes' = [i \in (DOMAIN nodes) \cup {id} |-> IF i = id THEN Zero ELSE nodes[i]]
    /\ checksum' = None
    /\ last' = NoOp
    /\ UNCHANGED <<ethics_core, consciousness_level, metadata, runtimeVars, sealed_at>>
add_node(id, bound) ==
    /\ BetweenCalls
    /\ id \in 1..bound
    /\ id <= NodeCount + 1
    /\ nodes' = [i \in (DOMAIN nodes) \cup {id} |-> IF i = id THEN Zero ELSE nodes[i]]
    /\ last' = NoOp
    /\ UNCHANGED <<ethics_core, consciousness_level, checksum, metadata, runtimeVars, sealed_at>>

\* HopeGenome.seal
seal ==
    /\ BetweenCalls
    /\ checksum' = Sha256(SealData(ethics_core, consciousness_level, NodeCount))
    /\ sealed_at' = Fields
    /\ last' = NoOp
    /\ UNCHANGED <<ethics_core, consciousness_level, nodes, metadata, runtimeVars>>

\* genome.metadata[k] = v
SetMetadata(k, v) ==
    /\ BetweenCalls
    /\ metadata' = [j \in (DOMAIN metadata) \cup {k} |-> IF j = k THEN v ELSE metadata[j]]
    /\ last' = NoOp
    /\ UNCHANGED <<ethics_core, consciousness_level, nodes, checksum, runtimeVars, sealed_at>>

\* a direct call of HopeGenome.verify_integrity
VerifyIntegrity ==
    /\ BetweenCalls
    /\ last' = Result("verify_integrity", StrBool(verify_integrity))
    /\ UNCHANGED <<genomeVars, runtimeVars, sealed_at>>

\* a direct call of PresenceLayer.update_consciousness(s)
PresenceUpdate(s) ==
    /\ BetweenCalls
    /\ consciousness_level' = update_consciousness(s)
    /\ last' = NoOp
    /\ UNCHANGED <<ethics_core, nodes, checksum, metadata, runtimeVars, sealed_at>>

----------------------------------------------------------------------------
(* The aggregator: CollectiveIntelligence *)

RECURSIVE SumRes(_, _)
SumRes(ns, i) == IF i = 0 THEN Zero ELSE FloatAdd(SumRes(ns, i - 1), ns[i])

\* CollectiveIntelligence.coordinate: the value it returns
CoordinateEmptyIsOne(ns) ==
    IF Len(ns) = 0 THEN FloatOfInt(1) ELSE FloatDivInt(SumRes(ns, Len(ns)), Len(ns))
CoordinateWritesThenReads(ns) == IF Len(ns) = 0 THEN Zero ELSE ns[1]
coordinate_result(ns) ==
    IF Len(ns) = 0 THEN Zero ELSE FloatDivInt(SumRes(ns, Len(ns)), Len(ns))

\* CollectiveIntelligence.coordinate: the node set it leaves
coordinate_nodes(ns) == Value({ [i \in DOMAIN ns |-> r] : r \in {coordinate_result(ns)} })

\* CollectiveIntelligence.broadcast_wave(w): the value it returns, the nodes it leaves
BroadcastSkipsFirst(ns, w) == [i \in DOMAIN ns |-> IF i = 1 THEN ns[i] ELSE w]
broadcast_nodes(ns, w) == [i \in DOMAIN ns |-> w]
BroadcastEmptyReturnsWave(ns, w) == w
broadcast_result(ns, w) ==
    IF Len(ns) = 0 THEN Zero
    ELSE FloatDivInt(SumRes(broadcast_nodes(ns, w), Len(ns)), Len(ns))

One == FloatOfInt(1)
\* waves broadcast by the model
Waves == {Zero, One}

\* the caller awaiting CollectiveIntelligence.broadcast_wave(w)
BroadcastWave(w) ==
    /\ BetweenCalls
    /\ nodes' = broadcast_nodes(nodes, w)
    /\ last' = [op |-> "broadcast_wave", val |-> "float", num |-> broadcast_result(nodes, w),
                arg |-> w, pre |-> nodes]
    /\ UNCHANGED <<ethics_core, consciousness_level, checksum, metadata, runtimeVars, sealed_at>>

\* the caller running CollectiveIntelligence.coordinate(); val tells whether
\* the caller's previous operation was coordinate() too
Coordinate ==
    /\ BetweenCalls
    /\ nodes' = coordinate_nodes(nodes)
    /\ last' = [op |-> "coordinate", val |-> IF last.op = "coordinate" THEN "again" ELSE "first",
                num |-> coordinate_result(nodes), arg |-> Zero, pre |-> nodes]
    /\ UNCHANGED <<ethics_core, consciousness_level, checksum, metadata, runtimeVars, sealed_at>>

----------------------------------------------------------------------------
(* The guard: IntegrityGuard *)

\* IntegrityGuard.verify_or_raise: whether it raises ValueError
GuardNeverRaises == FALSE
guard_raises == ~verify_integrity

\* verification_count after line 141
VerificationCountedOnSuccess ==
    IF guard_raises THEN verification_count ELSE verification_count + 1
VerificationCountedTwice == verification_count + 2
next_verification_count == verification_count + 1

\* a direct call of IntegrityGuard.verify_or_raise (a health check); tallied:
\* whether the observation also counts the direct calls that raised
DirectVerify(tallied) ==
    /\ BetweenCalls
    /\ verification_count < MaxCalls
    /\ verification_count' = next_verification_count
    /\ last' = Result("verify_or_raise", IF guard_raises THEN "IntegrityError" ELSE "None")
    /\ calls' = [calls EXCEPT !.ext = @ + 1,
                             !.ext_raised = IF tallied /\ guard_raises THEN @ + 1 ELSE @]
    /\ UNCHANGED <<genomeVars, enable_collective, decision_count, sealed_at>>

VerifyOrRaise == DirectVerify(FALSE)

----------------------------------------------------------------------------
(* The engine: HopeGenomeRuntime.decide / make_decision, one step per statement *)

Verdicts == {"ALLOW", "DENY", "ESCALATE"}

\* HopeGenomeRuntime.assess_risk, in hundredths: risk_level.value / 4.0
AssessRiskZeroBased(c) == ((c.risk_level - 1) * 100) \div 4
assess_risk(c) == (c.risk_level * 100) \div 4

\* HopeGenomeRuntime.check_emotional_stability
StabilityArousalInclusive(c) ==
    c.emotional_state.arousal <= ArousalLimit /\ c.emotional_state.valence > ValenceLimit
check_emotional_stability(c) ==
    c.emotional_state.arousal < ArousalLimit /\ c.emotional_state.valence > ValenceLimit

\* HopeGenomeRuntime.apply_context_rules: not context_rules.get('deny_all', False)
RulesIgnored(c) == TRUE
RulesDenyAnyEntry(c) == c.deny_all = "absent"
apply_context_rules(c) == c.deny_all # "True"

\* self.genome.ethics_core.get(k, True)
EthicsGet(k) == IF k \in DOMAIN ethics_core THEN ethics_core[k] ELSE TRUE

\* step 4 of the pipeline: every principle, read with default True, is true
EthicsPassAbsentDenies == \A k \in KeySet : k \in DOMAIN ethics_core /\ ethics_core[k]
ethics_pass == \A k \in KeySet : EthicsGet(k)

\* decision_count after line 201
DecisionCountNotIncremented == decision_count
next_decision_count == decision_count + 1

Step(t, name) == stages' = [stages EXCEPT ![t] = Append(@, name)]

\* the call returns v (or raises, v = "IntegrityError")
Return(t, v) ==
    /\ pc' = [pc EXCEPT ![t] = "done"]
    /\ verdict' = [verdict EXCEPT ![t] = v]
    /\ running' = 0
    /\ calls' = IF v = "IntegrityError" THEN [calls EXCEPT !.raised = @ + 1]
                ELSE [calls EXCEPT !.ok = @ + 1]

Goto(t, where) ==
    /\ pc' = [pc EXCEPT ![t] = where]
    /\ UNCHANGED <<verdict, running, calls>>

\* the interpreter enters the body of call t
Enter(t) ==
    /\ running' = t
    /\ pc' = [pc EXCEPT ![t] = "guard"]
    /\ verdict' = [verdict EXCEPT ![t] = "none"]
    /\ stages' = [stages EXCEPT ![t] = <<>>]
    /\ snap' = [snap EXCEPT ![t] = [level |-> consciousness_level, nodes |-> nodes,
                                    dc |-> decision_count, vc |-> verification_count,
                                    ok |-> verify_integrity]]

\* line 200 / 205: self.integrity_guard.verify_or_raise()
Guard(t) ==
    /\ running = t /\ pc[t] = "guard"
    /\ verification_count' = next_verification_count
    /\ IF guard_raises THEN Return(t, "IntegrityError") ELSE Goto(t, "count")
    /\ Step(t, "guard")
    /\ UNCHANGED <<genomeVars, enable_collective, decision_count, ctx, last, sealed_at,
                   snap, writer>>

\* line 201 / 206: self.decision_count += 1
Count(t) ==
    /\ running = t /\ pc[t] = "count"
    /\ decision_count' = next_decision_count
    /\ Goto(t, "risk")
    /\ Step(t, "count")
    /\ UNCHANGED <<genomeVars, enable_collective, verification_count, ctx, last,
                   sealed_at, snap, writer>>

\* a pipeline stage that changes no shared state
Stage(t, at, passes, onFail, next) ==
    /\ running = t /\ pc[t] = at
    /\ IF passes THEN Goto(t, next) ELSE Return(t, onFail)
    /\ Step(t, at)
    /\ UNCHANGED <<genomeVars, runtimeVars, ctx, last, sealed_at, snap, writer>>

\* lines 166-168
Risk(t) == Stage(t, "risk", ~(assess_risk(ctx[t]) > RiskThreshold), "ESCALATE", "stability")
\* lines 171-172
Stability(t) == Stage(t, "stability", check_emotional_stability(ctx[t]), "DENY", "rules")
\* lines 175-176
Rules(t) == Stage(t, "rules", apply_context_rules(ctx[t]), "DENY", "ethics")
\* lines 179-184
EthicsAfterUpdate(t) ==
    /\ running = t /\ pc[t] = "ethics"
    /\ consciousness_level' = update_consciousness(ctx[t].emotional_state)
    /\ IF ethics_pass THEN Goto(t, "presence") ELSE Return(t, "DENY")
    /\ Step(t, "ethics")
    /\ UNCHANGED <<ethics_core, nodes, checksum, metadata, runtimeVars, ctx, last,
                   sealed_at, snap, writer>>
Ethics(t) == Stage(t, "ethics", ethics_pass, "DENY", "presence")

\* line 187: self.genome.presence_core.update_consciousness(context.emotional_state)
Presence(t) ==
    /\ running = t /\ pc[t] = "presence"
    /\ consciousness_level' = update_consciousness(ctx[t].emotional_state)
    /\ writer' = [writer EXCEPT !.level = t]
    /\ Goto(t, "presence_test")
    /\ Step(t, "presence")
    /\ UNCHANGED <<ethics_core, nodes, checksum, metadata, runtimeVars, ctx, last,
                   sealed_at, snap>>

\* lines 188-192, and line 197 when aggregation is disabled
PresenceTestFloorInclusive(t) ==
    /\ running = t /\ pc[t] = "presence_test"
    /\ IF consciousness_level <= ConsciousnessFloor THEN Return(t, "ESCALATE")
       ELSE IF enable_collective THEN Goto(t, "orchestration")
       ELSE Return(t, "ALLOW")
    /\ Step(t, "presence_test")
    /\ UNCHANGED <<genomeVars, runtimeVars, ctx, last, sealed_at, snap, writer>>
PresenceTest(t) ==
    /\ running = t /\ pc[t] = "presence_test"
    /\ IF consciousness_level < ConsciousnessFloor THEN Return(t, "ESCALATE")
       ELSE IF enable_collective THEN Goto(t, "orchestration")
       ELSE Return(t, "ALLOW")
    /\ Step(t, "presence_test")
    /\ UNCHANGED <<genomeVars, runtimeVars, ctx, last, sealed_at, snap, writer>>

\* lines 193-197: coordinate(), then the test of its result
OrchestrationDeniesAtFloor(t) ==
    /\ running = t /\ pc[t] = "orchestration"
    /\ nodes' = coordinate_nodes(nodes)
    /\ writer' = [writer EXCEPT !.res = t]
    /\ IF FloatLess(Literal(ResonanceFloor), coordinate_result(nodes))
       THEN Return(t, "ALLOW") ELSE Return(t, "DENY")
    /\ Step(t, "orchestration")
    /\ UNCHANGED <<ethics_core, consciousness_level, checksum, metadata, runtimeVars, ctx,
                   last, sealed_at, snap>>
Orchestration(t) ==
    /\ running = t /\ pc[t] = "orchestration"
    /\ nodes' = coordinate_nodes(nodes)
    /\ writer' = [writer EXCEPT !.res = t]
    /\ IF FloatLess(coordinate_result(nodes), Literal(ResonanceFloor))
       THEN Return(t, "DENY") ELSE Return(t, "ALLOW")
    /\ Step(t, "orchestration")
    /\ UNCHANGED <<ethics_core, consciousness_level, checksum, metadata, runtimeVars, ctx,
                   last, sealed_at, snap>>

\* one statement of call t
CallStep(t) ==
    \/ Guard(t)
    \/ Count(t)
    \/ Risk(t)
    \/ Stability(t)
    \/ Rules(t)
    \/ Ethics(t)
    \/ Presence(t)
    \/ PresenceTest(t)
    \/ Orchestration(t)

----------------------------------------------------------------------------
(* Spec: one engine over one configuration, driven by one caller.  The
   configuration is what a GenomeBuilder holds before build(): any flag
   values, up to MaxNodes fresh nodes, not sealed.  The caller seals it,
   broadcasts to its nodes, runs health checks and makes blocking decide() /
   make_decision() calls; a call runs to its end before the caller does
   anything else. *)

Contexts ==
    [risk_level : RiskLevels, emotional_state : StateVectors,
     deny_all : {"absent", "True", "False"}]

FreshNodes(n) == [i \in 1..n |-> Zero]

\* the caller runs decide(c) / make_decision(c), while the guard has verified
\* fewer than bound times
CallWithin(c, bound) ==
    /\ running = 0
    /\ verification_count < bound
    /\ ctx' = [t \in Tasks |-> IF t = 1 THEN c ELSE LowDefault]
    /\ Enter(1)
    /\ last' = NoOp
    /\ UNCHANGED <<genomeVars, runtimeVars, sealed_at, writer, calls>>

Call(c) == CallWithin(c, MaxCalls)

Init ==
    /\ ethics_core \in [KeySet -> BOOLEAN]
    /\ consciousness_level = InitialConsciousness
    /\ \E n \in 0..MaxNodes : nodes = FreshNodes(n)
    /\ checksum = None
    /\ metadata = NoMetadata
    /\ enable_collective \in BOOLEAN
    /\ verification_count = 0
    /\ decision_count = 0
    /\ Frames("idle")
    /\ last = NoOp
    /\ sealed_at = NoFields
    /\ calls = NoCallsYet

Next ==
    \/ \E w \in Waves : BroadcastWave(w) /\ UNCHANGED calls
    \/ seal /\ UNCHANGED calls
    \/ VerifyIntegrity /\ UNCHANGED calls
    \/ VerifyOrRaise
    \/ \E c \in Contexts : Call(c)
    \/ CallStep(1)

Spec == Init /\ [][Next]_vars

----------------------------------------------------------------------------
(* SpecSeal: one HopeGenome, mutated, sealed and verified by its owner,
   directly and through an IntegrityGuard *)

InitSeal ==
    /\ GenomeInit
    /\ enable_collective = FALSE
    /\ verification_count = 0
    /\ decision_count = 0
    /\ Frames("idle")
    /\ last = NoOp
    /\ sealed_at = NoFields
    /\ calls = NoCallsYet

NextSeal ==
    \/ \E k \in KeySet, b \in BOOLEAN : set_ethics_principles(k, b) /\ UNCHANGED calls
    \/ \E id \in 1..MaxSealNodes : add_node(id, MaxSealNodes) /\ UNCHANGED calls
    \/ \E s \in SealVectors : PresenceUpdate(s) /\ UNCHANGED calls
    \/ seal /\ UNCHANGED calls
    \/ VerifyIntegrity /\ UNCHANGED calls
    \/ VerifyOrRaise

SpecSeal == InitSeal /\ [][NextSeal]_vars

----------------------------------------------------------------------------
(* SpecAgg: one CollectiveIntelligence holding up to MaxAggNodes nodes, as
   benchmark_collective_scaling builds it; its owner then makes up to
   MaxAggOps calls of add_node, broadcast_wave and coordinate *)

\* waves broadcast in the aggregator model: 0.1, 0.43 and the benchmark's 7.5
AggWaves == {Literal(10), Literal(43), Literal(750)}

\* one more aggregator operation of a run of at most bound
Spend(bound) ==
    /\ calls.agg < bound
    /\ calls' = [calls EXCEPT !.agg = @ + 1]

InitAgg ==
    /\ ethics_core = [k \in KeySet |-> TRUE]
    /\ consciousness_level = InitialConsciousness
    /\ \E n \in 0..MaxAggNodes : nodes = FreshNodes(n)
    /\ checksum = None
    /\ metadata = NoMetadata
    /\ enable_collective = TRUE
    /\ verification_count = 0
    /\ decision_count = 0
    /\ Frames("idle")
    /\ last = NoOp
    /\ sealed_at = NoFields
    /\ calls = NoCallsYet

NextAgg ==
    \/ \E id \in 1..MaxAggNodes : add_node(id, MaxAggNodes) /\ Spend(MaxAggOps)
    \/ \E w \in AggWaves : BroadcastWave(w) /\ Spend(MaxAggOps)
    \/ Coordinate /\ Spend(MaxAggOps)

SpecAgg == InitAgg /\ [][NextAgg]_vars

----------------------------------------------------------------------------
(* SpecCore: the whole life of one configuration.  A GenomeBuilder holding up
   to MaxNodes nodes is mutated and sealed; its owner goes on changing flags,
   metadata and nodes after the seal, broadcasts and coordinates (up to
   MaxCoreOps aggregator operations), verifies, and runs blocking decide()
   calls on an engine with aggregation enabled. *)

\* the value written to genome.metadata['padding']
Paddings == {"X"}

InitCore ==
    /\ ethics_core = [k \in KeySet |-> TRUE]
    /\ consciousness_level = InitialConsciousness
    /\ \E n \in 0..MaxNodes : nodes = FreshNodes(n)
    /\ checksum = None
    /\ metadata = NoMetadata
    /\ enable_collective = TRUE
    /\ verification_count = 0
    /\ decision_count = 0
    /\ Frames("idle")
    /\ last = NoOp
    /\ sealed_at = NoFields
    /\ calls = NoCallsYet

NextCore ==
    \/ \E b \in BOOLEAN : set_ethics_principles("transparency", b) /\ UNCHANGED calls
    \/ \E id \in 1..MaxNodes : add_node(id, MaxNodes) /\ Spend(MaxCoreOps)
    \/ \E v \in Paddings : SetMetadata("padding", v) /\ UNCHANGED calls
    \/ seal /\ calls' = [calls EXCEPT !.at_seal = Unhashed]
    \/ VerifyIntegrity /\ UNCHANGED calls
    \/ BroadcastWave(One) /\ Spend(MaxCoreOps)
    \/ Coordinate /\ Spend(MaxCoreOps)
    \/ Call(LowDefault)
    \/ CallStep(1)

SpecCore == InitCore /\ [][NextCore]_vars

----------------------------------------------------------------------------
(* SpecStages: the pipeline on a built configuration.  The configuration was
   sealed by build() with its flags all true or with one of them false, and
   with up to MaxNodes nodes of which the first may have been broadcast to;
   one caller makes blocking decide() / make_decision() calls. *)

StageContexts ==
    [risk_level : {LOW, HIGH, CRITICAL}, emotional_state : StageVectors,
     deny_all : {"absent", "True", "False"}]

\* the configuration is sealed as it stands
Built ==
    /\ consciousness_level = InitialConsciousness
    /\ checksum = Sha256(SealData(ethics_core, consciousness_level, NodeCount))
    /\ sealed_at = Fields
    /\ metadata = NoMetadata
    /\ verification_count = 0
    /\ decision_count = 0
    /\ Frames("idle")
    /\ last = NoOp
    /\ calls = NoCallsYet

InitStages ==
    /\ \E b \in BOOLEAN : ethics_core = [k \in KeySet |-> k # "autonomy_respect" \/ b]
    /\ \E n \in 0..MaxNodes, w \in Waves :
          nodes = [i \in 1..n |-> IF i = 1 THEN w ELSE Zero]
    /\ enable_collective \in BOOLEAN
    /\ Built

NextStages ==
    \/ \E c \in StageContexts : Call(c)
    \/ CallStep(1)

SpecStages == InitStages /\ [][NextStages]_vars

----------------------------------------------------------------------------
(* SpecFlags: the policy-flag stage.  ethics_core is a plain dict that the
   owner of the configuration can replace or cut down before build(): the
   configuration was sealed holding any of the three flags, each true or
   false, or not holding it.  It has no nodes. *)

\* the dicts over a subset of the three keys
PartialFlags == UNION {[S -> BOOLEAN] : S \in SUBSET KeySet}

FlagContexts ==
    [risk_level : {LOW, CRITICAL}, emotional_state : {DefaultState, Vec(90, 50, 10), Vec(70, 200, 60)},
     deny_all : {"absent", "True"}]

InitFlags ==
    /\ ethics_core \in PartialFlags
    /\ nodes = <<>>
    /\ enable_collective \in BOOLEAN
    /\ Built

NextFlags ==
    \/ \E c \in FlagContexts : Call(c)
    \/ CallStep(1)

SpecFlags == InitFlags /\ [][NextFlags]_vars

----------------------------------------------------------------------------
(* SpecDrift: an engine whose caller reseals.  The configuration was sealed
   by build() with the default flags and no node; the caller makes blocking
   decide() / make_decision() calls, adds nodes and calls seal() again. *)

DriftContexts ==
    [risk_level : {LOW}, emotional_state : SealVectors, deny_all : {"absent", "True"}]

InitDrift ==
    /\ ethics_core = [k \in KeySet |-> TRUE]
    /\ nodes = <<>>
    /\ enable_collective \in BOOLEAN
    /\ Built

NextDrift ==
    \/ \E c \in DriftContexts : CallWithin(c, MaxDriftCalls)
    \/ CallStep(1)
    \/ \E id \in 1..MaxSealNodes : add_node(id, MaxSealNodes) /\ UNCHANGED calls
    \/ seal /\ UNCHANGED calls

SpecDrift == InitDrift /\ [][NextDrift]_vars

----------------------------------------------------------------------------
(* SpecCounters: the two counters.  The configuration is a default one with
   no node, not sealed; the caller seals it, calls the guard directly and
   makes blocking decide() / make_decision() calls, some of which move the
   consciousness level away from the sealed one. *)

CounterContexts ==
    [risk_level : {LOW, CRITICAL}, emotional_state : SealVectors, deny_all : {"absent"}]

InitCounters ==
    /\ GenomeInit
    /\ enable_collective \in BOOLEAN
    /\ verification_count = 0
    /\ decision_count = 0
    /\ Frames("idle")
    /\ last = NoOp
    /\ sealed_at = NoFields
    /\ calls = NoCallsYet

NextCounters ==
    \/ seal /\ UNCHANGED calls
    \/ DirectVerify(TRUE)
    \/ \E c \in CounterContexts : Call(c)
    \/ CallStep(1)

SpecCounters == InitCounters /\ [][NextCounters]_vars

----------------------------------------------------------------------------
(* SpecGather: benchmark_high_load.  decide() coroutines over one engine are
   handed to asyncio.gather on one event loop.  The loop runs one coroutine
   at a time and can switch to another only where the running one awaits;
   after the gather the benchmark runs verify_or_raise() once more.  The
   configuration is sealed; one node may have been broadcast to before. *)

\* the positions of decide() at which the coroutine awaits: its body and
\* everything it calls hold no await
AwaitBetweenStatements ==
    {"count", "risk", "stability", "rules", "ethics", "presence", "presence_test",
     "orchestration"}
await_points == {}

GatherContexts ==
    { LowDefault,
      [risk_level |-> LOW, emotional_state |-> Vec(70, 200, 60), deny_all |-> "absent"],
      [risk_level |-> LOW, emotional_state |-> Vec(25, 25, 25), deny_all |-> "absent"] }

\* the event loop runs (or resumes) coroutine t
Resume(t) ==
    /\ running # t
    /\ pc[t] \notin {"idle", "done"}
    /\ IF running = 0 THEN TRUE ELSE pc[running] \in await_points
    /\ IF pc[t] = "pending" THEN Enter(t)
       ELSE running' = t /\ UNCHANGED <<pc, verdict, stages, snap>>
    /\ UNCHANGED <<genomeVars, runtimeVars, ctx, last, sealed_at, writer, calls>>

\* benchmark.py line 313, after the gather
FinalVerify ==
    /\ \A t \in Tasks : pc[t] = "done"
    /\ last.op = "none"
    /\ verification_count' = next_verification_count
    /\ last' = Result("verify_or_raise", IF guard_raises THEN "IntegrityError" ELSE "None")
    /\ calls' = [calls EXCEPT !.ext = @ + 1]
    /\ UNCHANGED <<genomeVars, enable_collective, decision_count, callVars, sealed_at>>

InitGather ==
    /\ ethics_core = [k \in KeySet |-> TRUE]
    /\ consciousness_level = InitialConsciousness
    /\ \E n \in 0..MaxNodes, w \in Waves :
          nodes = [i \in 1..n |-> IF i = 1 THEN w ELSE Zero]
    /\ checksum = Sha256(SealData(ethics_core, consciousness_level, NodeCount))
    /\ sealed_at = Fields
    /\ metadata = NoMetadata
    /\ enable_collective \in BOOLEAN
    /\ verification_count = 0
    /\ decision_count = 0
    /\ pc = [t \in Tasks |-> "pending"]
    /\ ctx \in [Tasks -> GatherContexts]
    /\ verdict = [t \in Tasks |-> "none"]
    /\ running = 0
    /\ snap = [t \in Tasks |-> NoSnap]
    /\ stages = [t \in Tasks |-> <<>>]
    /\ writer = [level |-> 0, res |-> 0]
    /\ last = NoOp
    /\ calls = NoCallsYet

NextGather ==
    \/ \E t \in Tasks : Resume(t)
    \/ \E t \in Tasks : CallStep(t)
    \/ FinalVerify

SpecGather == InitGather /\ [][NextGather]_vars /\ WF_vars(NextGather)

----------------------------------------------------------------------------
(* Claims *)

Done(t) == pc[t] = "done"
Raised(t) == Done(t) /\ verdict[t] = "IntegrityError"
\* call t returned a verdict and its guard check passed
Decided(t) == Done(t) /\ verdict[t] \in Verdicts
PipelineStages == {"risk", "stability", "rules", "ethics", "presence", "presence_test",
                   "orchestration"}
Unstable(c) ==
    c.emotional_state.arousal >= ArousalLimit \/ c.emotional_state.valence <= ValenceLimit
DefaultFlags == [k \in KeySet |-> TRUE]

(* C1: seal/verify round trip.  verify_integrity() returns True when the
   hashed fields are those of the last seal(), and False when a policy flag
   value, the consciousness level or the node count differs from what the
   last seal() hashed. *)
C1_RoundTrip ==
    (last.op = "verify_integrity" /\ checksum # None) =>
        /\ (Fields = sealed_at => last.val = "True")
        /\ (Fields # sealed_at => last.val = "False")

(* C2: never-sealed guard.  While seal() has never been called,
   verify_integrity() returns False and verify_or_raise() raises, whatever
   the flags, the node set and the consciousness level have been made. *)
C2_NeverSealed ==
    checksum = None =>
        /\ ~verify_integrity
        /\ (last.op = "verify_integrity" => last.val = "False")
        /\ (last.op = "verify_or_raise" => last.val = "IntegrityError")

\* an unsealed configuration with a flag, the node set and the level all
\* changed, on which the guard has just raised
C2_Witness ==
    /\ checksum = None
    /\ ethics_core # DefaultFlags
    /\ NodeCount > 0
    /\ consciousness_level # InitialConsciousness
    /\ last = Result("verify_or_raise", "IntegrityError")

(* C3: the integrity check gates every decision.  A call executes the guard
   check first, then the counter increment, then pipeline stages; a call
   whose guard check fails raises the integrity error, executes nothing
   else and leaves the consciousness level and every resonance as they
   were when it started. *)
C3_GuardGates ==
    \A t \in Tasks :
        LET st == stages[t] IN
        /\ (Len(st) >= 1 => st[1] = "guard")
        /\ (Len(st) >= 2 => st[2] = "count" /\ snap[t].ok)
        /\ (\A i \in 3..Len(st) : st[i] \in PipelineStages)
        /\ (pc[t] \in PipelineStages \cup {"count"} => Len(st) >= 1)
        /\ (pc[t] \in PipelineStages => Len(st) >= 2)
        /\ ((Len(st) >= 1 /\ ~snap[t].ok) =>
                /\ Raised(t)
                /\ st = <<"guard">>
                /\ consciousness_level = snap[t].level
                /\ nodes = snap[t].nodes)
        /\ (Raised(t) => ~snap[t].ok)

\* a call on a sealed configuration whose level drifted has raised
C3_Witness ==
    /\ Raised(1)
    /\ checksum # None
    /\ consciousness_level # sealed_at.level
    /\ ctx[1].emotional_state # DefaultState

(* C4 as claimed: every decide() call increments the decision counter by
   exactly one, also a call that ends in the integrity error. *)
C4_EveryCallCounts ==
    \A t \in Tasks : Done(t) => decision_count = snap[t].dc + 1

(* C4 as amended: a decide() call whose guard check passes increments the
   decision counter by exactly one whatever its verdict; a call that ends in
   the integrity error leaves the decision counter unchanged. *)
C4_CountsAfterGuard ==
    \A t \in Tasks :
        Done(t) => decision_count = snap[t].dc + (IF Raised(t) THEN 0 ELSE 1)

\* a call has raised after an earlier one was counted
C4_Witness == Raised(1) /\ decision_count = 1 /\ snap[1].dc = 1

(* C5: counter monotonicity.  After N decide() calls that all returned a
   verdict, with no other caller of verify_or_raise(), the decision counter
   and the verification counter both equal N. *)
C5_CountersEqualN ==
    (running = 0 /\ calls.raised = 0 /\ calls.ext = 0) =>
        /\ decision_count = calls.ok
        /\ verification_count = calls.ok

C5_Witness ==
    /\ running = 0
    /\ calls = [NoCallsYet EXCEPT !.ok = MaxCalls]
    /\ decision_count = MaxCalls

(* C6: risk escalation boundary.  On a passing integrity check a CRITICAL
   request ends at the risk stage with ESCALATE, whatever its state vector,
   its rules, the flags and the aggregation setting; a LOW, MEDIUM or HIGH
   request goes on from the risk stage to the stability check. *)
C6_RiskBoundary ==
    \A t \in Tasks :
        LET st == stages[t] IN
        /\ (Decided(t) /\ ctx[t].risk_level = CRITICAL) =>
                verdict[t] = "ESCALATE" /\ st = <<"guard", "count", "risk">>
        /\ (Decided(t) /\ ctx[t].risk_level # CRITICAL) =>
                Len(st) >= 4 /\ st[3] = "risk" /\ st[4] = "stability"
        /\ (pc[t] = "stability" => ctx[t].risk_level # CRITICAL)

\* a CRITICAL request that every later stage would have denied
C6_Witness ==
    /\ Decided(1)
    /\ ctx[1].risk_level = CRITICAL
    /\ Unstable(ctx[1])
    /\ ctx[1].deny_all = "True"
    /\ ~ethics_core["no_harm"]
    /\ enable_collective
    /\ verdict[1] = "ESCALATE"

(* C7: stability denial.  On a passing integrity check a request with
   arousal >= 0.8 or valence <= -0.5 and risk LOW, MEDIUM or HIGH yields
   DENY, whatever the flags, the rules and the aggregation setting. *)
C7_StabilityDenial ==
    \A t \in Tasks :
        (Decided(t) /\ ctx[t].risk_level # CRITICAL /\ Unstable(ctx[t])) =>
            verdict[t] = "DENY" /\ stages[t] = <<"guard", "count", "risk", "stability">>

\* arousal exactly 0.8 on a request nothing else would deny
C7_Witness ==
    /\ Decided(1)
    /\ ctx[1] = [risk_level |-> HIGH, emotional_state |-> Vec(80, 50, 20),
                 deny_all |-> "absent"]
    /\ ethics_core = DefaultFlags
    /\ ~enable_collective
    /\ verdict[1] = "DENY"

(* C8: end-to-end scenario.  On a sealed default configuration with
   aggregation disabled, the request (LOW, (0.5, 0.5, 0.5), no rules) yields
   ALLOW, with deny_all = true it yields DENY, with risk CRITICAL it yields
   ESCALATE. *)
SealedDefault(t) ==
    /\ snap[t].ok
    /\ ethics_core = DefaultFlags
    /\ snap[t].level = InitialConsciousness
    /\ snap[t].nodes = <<>>
    /\ ~enable_collective
C8_Scenario ==
    \A t \in Tasks :
        (Done(t) /\ SealedDefault(t) /\ ctx[t].emotional_state = DefaultState) =>
            /\ (ctx[t].risk_level = LOW /\ ctx[t].deny_all = "absent" =>
                    verdict[t] = "ALLOW")
            /\ (ctx[t].risk_level = LOW /\ ctx[t].deny_all = "True" =>
                    verdict[t] = "DENY")
            /\ (ctx[t].risk_level = CRITICAL /\ ctx[t].deny_all = "absent" =>
                    verdict[t] = "ESCALATE")

\* the three requests of the scenario, made one after the other
C8_Witness ==
    /\ Done(1) /\ SealedDefault(1)
    /\ ctx[1] = [risk_level |-> LOW, emotional_state |-> DefaultState, deny_all |-> "True"]
    /\ verdict[1] = "DENY"
    /\ decision_count = 2

(* C9: high-load stability.  When every gathered decide() call is the
   benchmark's (LOW, (0.5, 0.5, 0.5), no rules) on a sealed default
   configuration with aggregation disabled, every call returns ALLOW in
   whatever order the loop runs them, and the verify_or_raise() after the
   gather succeeds. *)
HighLoadSetup ==
    /\ \A t \in Tasks : ctx[t] = LowDefault
    /\ ~enable_collective
    /\ nodes = <<>>
C9_HighLoad ==
    HighLoadSetup =>
        /\ \A t \in Tasks : Done(t) => verdict[t] = "ALLOW"
        /\ (last.op = "verify_or_raise" => last.val = "None")

C9_Witness ==
    /\ HighLoadSetup
    /\ \A t \in Tasks : Done(t) /\ verdict[t] = "ALLOW"
    /\ last = Result("verify_or_raise", "None")
    /\ decision_count = NTasks

(* C10 as claimed: gathered decide() calls interleave their reads and writes,
   so that a call tests a consciousness level written by another call that
   has started and not finished.  Stated of a run: at some point one call is
   about to test a level last written by another call still in flight. *)
InFlight(t) == pc[t] \notin {"idle", "pending", "done"}
RaceObserved ==
    \E t \in Tasks :
        /\ pc[t] \in {"presence_test", "orchestration"}
        /\ \/ writer.level \notin {0, t} /\ InFlight(writer.level)
           \/ \E u \in Tasks \ {t} : InFlight(u)
C10_Interleave == <>RaceObserved

(* C10 as amended: decide() holds no await, so gathered on one event loop the
   calls run one at a time, each from its guard check to its return: at most
   one call is in flight, the level a call tests at line 188 is the one it
   stored itself at line 187, and every other write it sees was made by a
   call that has finished. *)
C10_Serialized ==
    \A t \in Tasks :
        InFlight(t) =>
            /\ running = t
            /\ \A u \in Tasks \ {t} : ~InFlight(u)
            /\ (pc[t] \in {"presence_test", "orchestration"} =>
                    /\ writer.level = t
                    /\ consciousness_level = update_consciousness(ctx[t].emotional_state))
            /\ (writer.res # 0 => Done(writer.res))

\* a call about to test its own level after another call, with another state
\* vector, finished, and with a third not started
C10_Witness ==
    \E t, u, v \in Tasks :
        /\ pc[t] = "presence_test"
        /\ Decided(u)
        /\ pc[v] = "pending"
        /\ ctx[u].emotional_state # ctx[t].emotional_state

\* the next float above a positive float
NextUp(a) == Round(BigAdd(a[1], <<1>>, 0), a[2], FALSE)
\* r is x or one of the two floats next to x on either side
WithinTwoUlps(r, x) ==
    \/ r = x
    \/ /\ r # Zero /\ x # Zero
       /\ \/ r = NextUp(x) \/ r = NextUp(NextUp(x))
          \/ x = NextUp(r) \/ x = NextUp(NextUp(r))
Uniform(ns) == \A i \in DOMAIN ns : ns[i] = ns[1]
Broadcast == last.op = "broadcast_wave" /\ last.pre # <<>>
Coordinated == last.op = "coordinate" /\ last.pre # <<>>

(* C11 as claimed: on an aggregator with at least one node broadcast(x)
   returns x, and when it returns every node's resonance is x, whatever the
   resonances were before. *)
C11_BroadcastExact ==
    Broadcast =>
        /\ last.num = last.arg
        /\ nodes = [i \in DOMAIN last.pre |-> last.arg]

(* C11 as amended: on an aggregator with at least one node, when
   broadcast(x) returns every node's resonance is exactly x, whatever the
   resonances were before; the value returned is the float mean of the node
   count copies of x, which is x within two units in the last place, and
   exactly x when there are one or two nodes. *)
C11_BroadcastRounded ==
    Broadcast =>
        /\ nodes = [i \in DOMAIN last.pre |-> last.arg]
        /\ WithinTwoUlps(last.num, last.arg)
        /\ (Len(last.pre) <= 2 => last.num = last.arg)

\* 0.1 broadcast to three nodes that held different values, none of them 0.1:
\* the value returned is not 0.1
C11_Witness ==
    /\ Broadcast
    /\ last.arg = Literal(10)
    /\ Len(last.pre) = 3
    /\ ~Uniform(last.pre)
    /\ \A i \in DOMAIN last.pre : last.pre[i] # last.arg
    /\ last.num # last.arg

(* C12: aggregation on the empty set.  On an aggregator with no node,
   broadcast(x) for any x and coordinate() return 0.0 and leave the node set
   empty. *)
C12_EmptySet ==
    (last.op \in {"broadcast_wave", "coordinate"} /\ last.pre = <<>>) =>
        /\ last.num = Zero
        /\ nodes = <<>>

\* coordinate() on the empty aggregator, after a broadcast to it
C12_Witness ==
    /\ last.op = "coordinate" /\ last.val = "first"
    /\ last.pre = <<>>
    /\ calls.agg = 2

(* C18 as claimed: on a non-empty aggregator coordinate() returns the mean
   of the resonances as they were before the call and leaves every node's
   resonance equal to the value returned, so that a coordinate() immediately
   after a coordinate() returns the same value and changes nothing. *)
C18_Idempotent ==
    Coordinated =>
        /\ last.num = FloatDivInt(SumRes(last.pre, Len(last.pre)), Len(last.pre))
        /\ nodes = [i \in DOMAIN last.pre |-> last.num]
        /\ (last.val = "again" => last.num = last.pre[1] /\ nodes = last.pre)

(* C18 as amended: on a non-empty aggregator coordinate() returns the float
   mean (the left-to-right float sum divided by the count) of the
   resonances as they were before the call and leaves every node's
   resonance equal to the value returned; a coordinate() immediately after
   a coordinate() finds all nodes equal and returns that value within two
   units in the last place, exactly so when there are one or two nodes. *)
C18_ReadsThenWrites ==
    Coordinated =>
        /\ last.num = FloatDivInt(SumRes(last.pre, Len(last.pre)), Len(last.pre))
        /\ nodes = [i \in DOMAIN last.pre |-> last.num]
        /\ (last.val = "again" =>
                /\ Uniform(last.pre)
                /\ WithinTwoUlps(last.num, last.pre[1])
                /\ (Len(last.pre) <= 2 => last.num = last.pre[1] /\ nodes = last.pre))

\* a repeated coordinate() that returned another value than the one before
C18_Witness ==
    /\ Coordinated
    /\ last.val = "again"
    /\ last.num # last.pre[1]

(* C13: the seal phase is one-way.  The checksum is None exactly when seal()
   has never been called: no builder mutation, decide(), coordinate(),
   broadcast or verification takes a sealed configuration back to the
   unsealed state. *)
C13_SealOneWay == (checksum = None) <=> (sealed_at = NoFields)

\* a sealed configuration whose flag, metadata and node resonances were
\* changed after the seal and on which decide() has raised
C13_Witness ==
    /\ checksum # None
    /\ ethics_core # sealed_at.flags
    /\ Unhashed.nodes # calls.at_seal.nodes
    /\ Unhashed.metadata # calls.at_seal.metadata
    /\ calls.agg = MaxCoreOps
    /\ Raised(1)

(* C19: checksum coverage limitation.  On a sealed configuration whose
   flags, consciousness level and node count are those of the seal,
   verify_integrity() returns True although the metadata changed, node
   resonances changed (coordinate, broadcast) or a node was added again
   under an existing id since the seal. *)
C19_CoverageLimit ==
    (/\ last.op = "verify_integrity"
     /\ checksum # None
     /\ Fields = sealed_at
     /\ Unhashed # calls.at_seal) => last.val = "True"

\* sealed with two fresh nodes and no metadata; then the metadata was written,
\* 1.0 was broadcast and node 1 was added again: the check still passes
C19_Witness ==
    /\ last = Result("verify_integrity", "True")
    /\ calls.at_seal = [nodes |-> FreshNodes(2), metadata |-> NoMetadata]
    /\ metadata # NoMetadata
    /\ nodes = <<Zero, One>>

----------------------------------------------------------------------------
(* The stages of the pipeline, on the pipeline models *)

Ran(t, name) == \E i \in DOMAIN stages[t] : stages[t][i] = name
\* the request of call t passes the risk and the stability stage
PassesStability(t) == ctx[t].risk_level # CRITICAL /\ ~Unstable(ctx[t])
\* ... and the context-rule stage
PassesRules(t) == PassesStability(t) /\ ctx[t].deny_all # "True"
\* ... and the policy-flag stage: no flag the configuration holds is false
PassesFlags(t) ==
    PassesRules(t) /\ \A k \in KeySet : k \in DOMAIN ethics_core => ethics_core[k]
\* the mean of the request's three components, clamped to [0, 1]
ClampedMean(c) ==
    LET m == (c.emotional_state.arousal + c.emotional_state.valence
              + c.emotional_state.dominance) \div 3
    IN  IF m < 0 THEN 0 ELSE IF m > 100 THEN 100 ELSE m

(* C14: consciousness stage.  When a call's integrity check passed and its
   request passes the risk, stability, context-rule and policy-flag stages,
   the call stores the clamped mean of the request's arousal, valence and
   dominance as the configuration's consciousness level; if that level is
   below 0.3 the call returns ESCALATE and the aggregation stage has not run
   (no node resonance changed), otherwise it does not return ESCALATE. *)
C14_ConsciousnessStage ==
    \A t \in Tasks :
        (Decided(t) /\ PassesFlags(t)) =>
            /\ Ran(t, "presence")
            /\ consciousness_level = ClampedMean(ctx[t])
            /\ IF consciousness_level < ConsciousnessFloor
               THEN /\ verdict[t] = "ESCALATE"
                    /\ ~Ran(t, "orchestration")
                    /\ nodes = snap[t].nodes
               ELSE verdict[t] # "ESCALATE"

\* a request of mean 0.25 escalates on an engine whose aggregation would allow
C14_Witness ==
    /\ Decided(1) /\ PassesFlags(1)
    /\ ctx[1].emotional_state = Vec(25, 25, 25)
    /\ snap[1].level = InitialConsciousness
    /\ consciousness_level = 25
    /\ enable_collective /\ nodes = <<One>>
    /\ verdict[1] = "ESCALATE"

(* C15: policy-flag stage.  When a call's integrity check passed and its
   request passes the risk, stability and context-rule stages, the call
   returns DENY if the configuration holds one of the flags no_harm,
   autonomy_respect, transparency with the value false, and then it ends at
   the flag stage with the consciousness level as it found it; if every flag
   the configuration holds is true, flags it does not hold included, the
   call goes on to the consciousness stage. *)
C15_PolicyFlags ==
    \A t \in Tasks :
        (Decided(t) /\ PassesRules(t)) =>
            IF \E k \in KeySet : k \in DOMAIN ethics_core /\ ~ethics_core[k]
            THEN /\ verdict[t] = "DENY"
                 /\ stages[t] = <<"guard", "count", "risk", "stability", "rules", "ethics">>
                 /\ consciousness_level = snap[t].level
            ELSE Ran(t, "presence")

\* the only flag held is false; the request's mean would have raised the level
C15_Witness ==
    /\ Decided(1) /\ PassesRules(1)
    /\ DOMAIN ethics_core = {"transparency"} /\ ~ethics_core["transparency"]
    /\ ctx[1].emotional_state = Vec(70, 200, 60)
    /\ verdict[1] = "DENY"
    /\ consciousness_level = InitialConsciousness

(* C16: context-rule stage.  When a call's integrity check passed and its
   request passes the risk and stability stages, the call returns DENY at
   the context-rule stage if the request's rules hold deny_all with a truthy
   value, and goes on to the policy-flag stage if deny_all is missing or
   falsy; a CRITICAL request returns ESCALATE at the risk stage whatever its
   deny_all. *)
C16_ContextRules ==
    \A t \in Tasks :
        /\ (Decided(t) /\ PassesStability(t)) =>
                IF ctx[t].deny_all = "True"
                THEN /\ verdict[t] = "DENY"
                     /\ stages[t] = <<"guard", "count", "risk", "stability", "rules">>
                ELSE Ran(t, "rules") /\ Ran(t, "ethics")
        /\ (Decided(t) /\ ctx[t].risk_level = CRITICAL) =>
                verdict[t] = "ESCALATE" /\ ~Ran(t, "rules")

\* deny_all = False lets through a request that is then allowed
C16_Witness ==
    /\ Decided(1) /\ PassesStability(1)
    /\ ctx[1].deny_all = "False"
    /\ Ran(1, "ethics")
    /\ verdict[1] = "ALLOW"

\* how many times call t has executed the step
Times(t, name) == Cardinality({i \in DOMAIN stages[t] : stages[t][i] = name})
\* the request of call t passes every stage before the aggregation stage
PassesPresence(t) == PassesFlags(t) /\ ClampedMean(ctx[t]) >= ConsciousnessFloor

(* C17: aggregation stage.  A call runs the stage exactly when aggregation
   is enabled, its integrity check passed and its request passes every
   earlier stage; it then calls coordinate() once, which leaves the mean of
   the resonances the call found in every node, and returns DENY if that
   mean is below 0.5 and ALLOW otherwise.  With aggregation disabled a call
   writes no node resonance, and a request that passes every earlier stage
   is allowed whatever the nodes hold. *)
C17_AggregationStage ==
    \A t \in Tasks :
        /\ Ran(t, "orchestration") =>
                /\ enable_collective /\ snap[t].ok /\ PassesPresence(t)
                /\ Times(t, "orchestration") = 1
                /\ Decided(t)
                /\ verdict[t] = IF FloatLess(coordinate_result(snap[t].nodes),
                                             Literal(ResonanceFloor))
                                THEN "DENY" ELSE "ALLOW"
                /\ nodes = [i \in DOMAIN snap[t].nodes |-> coordinate_result(snap[t].nodes)]
        /\ (Decided(t) /\ PassesPresence(t)) =>
                IF enable_collective THEN Ran(t, "orchestration")
                ELSE verdict[t] = "ALLOW"
        /\ (pc[t] # "idle" /\ ~Ran(t, "orchestration")) =>
                nodes = snap[t].nodes
        /\ ~enable_collective => ~Ran(t, "orchestration") /\ writer.res = 0

\* the mean of 1.0 and 0.0 is exactly the floor: the request is allowed
C17_Witness ==
    /\ Decided(1) /\ Ran(1, "orchestration")
    /\ snap[1].nodes = <<One, Zero>>
    /\ nodes = <<Literal(ResonanceFloor), Literal(ResonanceFloor)>>
    /\ verdict[1] = "ALLOW"

(* C20: range of the consciousness level.  In every state the level is
   within [0, 1]; it is 0.5 until a call has stored one, and what a call
   stores is within [0, 1] whatever the components of the request's state
   vector, those outside [0, 1] included. *)
C20_LevelInRange ==
    /\ 0 <= consciousness_level /\ consciousness_level <= 100
    /\ writer.level = 0 => consciousness_level = InitialConsciousness

\* a request of mean -0.2 has been stored as 0.0
C20_Witness ==
    /\ Decided(1) /\ Ran(1, "presence")
    /\ ctx[1].emotional_state = Vec(0, -40, -20)
    /\ snap[1].level = InitialConsciousness
    /\ consciousness_level = 0

(* C21: permanence of the integrity failure after a drift.  On a sealed
   engine, once a call has stored a consciousness level that differs from
   the level hashed by the last seal(), every later call raises the
   integrity error and leaves the decision counter as it found it, until the
   caller calls seal() again. *)
C21_DriftPermanent ==
    \A t \in Tasks :
        (Done(t) /\ checksum # None /\ snap[t].level # sealed_at.level) =>
            Raised(t) /\ decision_count = snap[t].dc

\* every node holds the resonance it was created with
AllFresh(ns) == \A i \in DOMAIN ns : ns[i] = Zero

(* C22: no ALLOW without a stimulus.  With aggregation enabled, a call that
   finds the node set empty, or every node at the resonance 0.0 it was
   created with (coordinated before or not), does not return ALLOW: a
   request that reaches the aggregation stage is denied, and coordinate()
   leaves every resonance at 0.0. *)
C22_NoAllowUnstimulated ==
    \A t \in Tasks :
        (Decided(t) /\ enable_collective /\ AllFresh(snap[t].nodes)) =>
            /\ verdict[t] # "ALLOW"
            /\ PassesPresence(t) => verdict[t] = "DENY" /\ Ran(t, "orchestration")
            /\ AllFresh(nodes) /\ DOMAIN nodes = DOMAIN snap[t].nodes

\* a second call on two nodes nobody has broadcast to
C22_Witness ==
    /\ Decided(1) /\ enable_collective
    /\ snap[1].nodes = <<Zero, Zero>> /\ snap[1].dc = 1
    /\ PassesPresence(1)
    /\ Ran(1, "orchestration")
    /\ verdict[1] = "DENY"

\* between calls the counters differ by failed, the number of failed guard
\* checks, plus the number of direct guard calls
CountersDifferBy(failed) ==
    /\ decision_count <= verification_count
    /\ running = 0 => verification_count - decision_count = failed + calls.ext

(* C23 as worded: the decision counter is at most the verification counter
   and the difference is the number of verify_or_raise() calls that failed,
   inside decide() or not, plus the number made outside decide(). *)
C23_DifferenceAllFailed == CountersDifferBy(calls.raised + calls.ext_raised)

(* C23: the two counters.  The decision counter is at most the verification
   counter, no step decreases either of them, and between calls the
   difference is the number of decide() / make_decision() calls whose guard
   check failed plus the number of verify_or_raise() calls made outside
   decide(), failed or not: a call made outside that failed counts once. *)
C23_Counters ==
    /\ [](CountersDifferBy(calls.raised))
    /\ [][/\ verification_count' >= verification_count
          /\ decision_count' >= decision_count]_vars

\* a direct call failed, then a decide() call failed
C23_Witness ==
    /\ Raised(1)
    /\ calls.ext = 1 /\ calls.ext_raised = 1
    /\ verification_count = 2 /\ decision_count = 0

\* the step at which call t ended
EndedAt(t) == stages[t][Len(stages[t])]

(* C24: frame of a short-circuited call.  A call that ends at the risk,
   stability, context-rule or policy-flag stage leaves the flags, the
   checksum, the consciousness level and every node's resonance as they
   were, so a configuration that verified when the call started verifies
   when it has ended; a call that ends at the consciousness stage leaves
   every node's resonance as it was. *)
C24_ShortCircuitFrame ==
    \A t \in Tasks :
        /\ (Decided(t) /\ EndedAt(t) \in {"risk", "stability", "rules", "ethics"}) =>
                /\ ethics_core = sealed_at.flags
                /\ checksum = Sha256(SealData(sealed_at.flags, sealed_at.level,
                                              sealed_at.count))
                /\ consciousness_level = snap[t].level
                /\ nodes = snap[t].nodes
                /\ snap[t].ok => verify_integrity
        /\ (Decided(t) /\ EndedAt(t) = "presence_test") => nodes = snap[t].nodes

\* a denial at the flag stage of a request whose mean is not the level
C24_Witness ==
    /\ Decided(1) /\ EndedAt(1) = "ethics"
    /\ ctx[1].emotional_state = Vec(25, 25, 25)
    /\ snap[1].ok /\ verify_integrity
    /\ consciousness_level = InitialConsciousness
    /\ nodes = <<One>>
    /\ verdict[1] = "DENY"

====
